---------------------------- MODULE Spec2Model ----------------------------
(***************************************************************************)
(* A model of python/brainweb/utils.py: the tissue-code registry (Act,     *)
(* Pet, T1, T2), the geometry registry (Res, Shape), the modality          *)
(* synthesizer toPetMmr and the noise injector noise.                      *)
(*                                                                         *)
(* Arrays.  A numpy array is a record [shape, dtype, unit, data].  shape is *)
(* the real 3-D shape <<z, y, x>>; a stored integer v stands for the number *)
(* v / unit.  data holds the values at NSamp tracked                       *)
(* voxel positions: every array operation of the module up to the resize   *)
(* is elementwise (comparison, masked assignment, arithmetic), so the      *)
(* value at a position depends only on the values at that position.        *)
(*                                                                         *)
(* Numbers.  The decimal literals of the source are kept exact: a          *)
(* resolution is an integer count of 1e-4 mm (2.0312 -> 20312), an         *)
(* attenuation an integer count of 1e-4 /cm, and a possibly fractional     *)
(* voxel count is a rational [n, d] with d > 0.                            *)
(***************************************************************************)
EXTENDS Integers, Sequences, FiniteSets, TLC

VARIABLES
  classes,   \* the class attribute dictionaries of Act, Pet, T1, T2
  geom,      \* the class attributes of Res and Shape
  im,        \* the caller's labeled volume (the array object passed in)
  call,      \* the last toPetMmr call: arguments, locals, outcome
  prev,      \* the toPetMmr call before that: arguments and outcome
  rng,       \* numpy's process-wide random state: fields drawn so far
  nz,        \* the last noise call: arguments and outcome
  probe      \* the last Act.indices call on a one-voxel array

vars == <<classes, geom, im, call, prev, rng, nz, probe>>

-----------------------------------------------------------------------------
(* Bounds of the model *)

\* number of tracked voxel positions of a volume
NSamp == 2

\* random fields the noise injector may draw in one behaviour
MaxDraws == 2

\* largest noise fraction tried (the smallest is -MaxNoise)
MaxNoise == 1

-----------------------------------------------------------------------------
(* Integer helpers *)

Abs(x) == IF x < 0 THEN -x ELSE x

\* F applied to the value of x, x evaluated once
Let(x, F(_)) == CHOOSE y \in { F(v) : v \in {x} } : TRUE

\* i << k
RECURSIVE Shl(_, _)
Shl(i, k) == IF k = 0 THEN i ELSE Shl(2 * i, k - 1)

\* a | b on non-negative integers
RECURSIVE BitOr(_, _)
BitOr(a, b) ==
  IF a = 0 THEN b
  ELSE IF b = 0 THEN a
  ELSE (IF (a % 2 = 1) \/ (b % 2 = 1) THEN 1 ELSE 0)
       + 2 * BitOr(a \div 2, b \div 2)

\* width of numpy.uint16
UInt16Mod == 65536

-----------------------------------------------------------------------------
(* Tissue code registry: class Act and the profiles Pet, T1, T2 *)

BaseOrder ==
  << "background", "csf", "greyMatter", "whiteMatter", "fat", "muscle",
     "skin", "skull", "vessels", "aroundFat", "dura", "marrow" >>

BaseLabels == { BaseOrder[i] : i \in 1..Len(BaseOrder) }

\* the value the tuple assignment of class Act gives a base label: i << 4
ActBase(a) == Shl((CHOOSE i \in 1..Len(BaseOrder) : BaseOrder[i] = a) - 1, 4)

ActDict ==
  [ a \in BaseLabels \cup {"bone"} |->
      IF a = "bone"
      THEN BitOr(BitOr(ActBase("skull"), ActBase("marrow")), ActBase("dura"))
      ELSE ActBase(a) ]

PetDict ==
  [ a \in {"whiteMatter", "greyMatter", "skin", "attrs"} |->
      CASE a = "whiteMatter" -> 32
        [] a = "greyMatter"  -> 32 * 4
        [] a = "skin"        -> 32 \div 2
        [] a = "attrs"       -> << "whiteMatter", "greyMatter", "skin" >> ]

T1Dict ==
  [ a \in {"whiteMatter", "greyMatter", "skin", "skull", "marrow", "bone",
            "csf", "attrs"} |->
      CASE a = "whiteMatter" -> 154
        [] a = "greyMatter"  -> 106
        [] a = "skin"        -> 92
        [] a = "skull"       -> 48
        [] a = "marrow"      -> 180
        [] a = "bone"        -> 48
        [] a = "csf"         -> 48
        [] a = "attrs"       -> << "whiteMatter", "greyMatter", "skin",
                                   "skull", "marrow", "bone", "csf" >> ]

T2Dict ==
  [ a \in {"whiteMatter", "greyMatter", "skin", "skull", "marrow", "csf",
            "bone"} |->
      CASE a = "whiteMatter" -> 70
        [] a = "greyMatter"  -> 100
        [] a = "skin"        -> 70
        [] a = "skull"       -> 100
        [] a = "marrow"      -> 250
        [] a = "csf"         -> 250
        [] a = "bone"        -> 200 ]

\* the classes as the module body leaves them: own dictionary and base class
ClassesInit ==
  [ Act |-> [base |-> "object", dict |-> ActDict],
    Pet |-> [base |-> "Act",    dict |-> PetDict],
    T1  |-> [base |-> "Act",    dict |-> T1Dict],
    T2  |-> [base |-> "T1",     dict |-> T2Dict] ]

mu_bone_1_cm == 1300

mu_tissue_1_cm == 975

-----------------------------------------------------------------------------
(* Geometry registry: class Res and class Shape *)

Systems == {"mMR", "MR", "brainweb"}

ResInit ==
  [ mMR      |-> << 20312, 20863, 20863 >>,
    MR       |-> << 10000, 10000, 10000 >>,
    brainweb |-> << 5000, 5000, 5000 >> ]

\* Shape.mMR is an integer array; Shape.MR and Shape.brainweb are
\* mMR * Res.mMR / Res.<own>, float arrays that are not whole numbers
ShapeInit ==
  LET mMR == << 127, 344, 344 >>
      scaled(own) == [ i \in 1..3 |->
                         [n |-> mMR[i] * ResInit.mMR[i], d |-> ResInit[own][i]] ]
  IN  [ mMR      |-> [ i \in 1..3 |-> [n |-> mMR[i], d |-> 1] ],
        MR       |-> scaled("MR"),
        brainweb |-> scaled("brainweb") ]

GeomInit == [ Res |-> ResInit, Shape |-> ShapeInit ]

-----------------------------------------------------------------------------
(* Attribute lookup and arrays *)

\* getattr(cls, attr): the class's own dictionary, then its base classes
RECURSIVE getattr(_, _)
getattr(cls, attr) ==
  IF attr \in DOMAIN classes[cls].dict THEN classes[cls].dict[attr]
  ELSE IF classes[cls].base = "object" THEN -1
  ELSE getattr(classes[cls].base, attr)

Idx(a) == 1..Len(a.data)

NoArr == [shape |-> <<>>, dtype |-> "none", unit |-> 1, data |-> <<>>]

\* a value stored into an array of the given dtype
Cast(dtype, v) == IF dtype = "uint16" THEN v % UInt16Mod ELSE v

\* array - scalar in the array's dtype
Sub(dtype, x, y) == Cast(dtype, x - y)

\* np.zeros(a.shape, dtype)
zeros(shape, dtype, unit, len) ==
  [shape |-> shape, dtype |-> dtype, unit |-> unit, data |-> [i \in 1..len |-> 0]]

\* arr[mask] = val
SetItem(a, mask, val) ==
  [a EXCEPT !.data = [i \in Idx(a) |-> IF mask[i] THEN Cast(a.dtype, val) ELSE a.data[i]]]

\* two arrays hold the same numbers
NumEq(a, b) ==
  /\ a.shape = b.shape
  /\ Len(a.data) = Len(b.data)
  /\ \A i \in Idx(a) : a.data[i] * b.unit = b.data[i] * a.unit

\* a mutation: a tolerance of one code instead of strictly less than one
RECURSIVE indices_tol(_, _, _)
indices_tol(cls, a, attr) ==
  IF attr = "bone"
  THEN [i \in Idx(a) |-> \/ indices_tol(cls, a, "skull")[i]
                         \/ indices_tol(cls, a, "marrow")[i]
                         \/ indices_tol(cls, a, "dura")[i]]
  ELSE [i \in Idx(a) |-> Abs(Sub(a.dtype, a.data[i], getattr(cls, attr))) <= 1]

\* a mutation: "bone" looked up like any other label (no composite case)
indices_flat(cls, a, attr) ==
  [i \in Idx(a) |-> Abs(Sub(a.dtype, a.data[i], getattr(cls, attr))) < 1]

\* Act.indices(im, attr), a classmethod: cls is the class it is called on
RECURSIVE indices(_, _, _)
indices(cls, a, attr) ==
  IF attr = "bone"
  THEN [i \in Idx(a) |-> \/ indices(cls, a, "skull")[i]
                         \/ indices(cls, a, "marrow")[i]
                         \/ indices(cls, a, "dura")[i]]
  ELSE [i \in Idx(a) |-> Abs(Sub(a.dtype, a.data[i], getattr(cls, attr))) < 1]

-----------------------------------------------------------------------------
(* toPetMmr: the four volumes before the resize *)

\* The locals of a call live in a heap, a sequence of array objects; a local
\* is a reference into it.  Reference 1 is the caller's array im.

\* a mutation: the output volume is the input array itself, not a new one
zeros_like_alias(h, r) == [heap |-> h, ref |-> r]

\* np.zeros_like(im): a new array of im's shape and dtype
zeros_like(h, r) ==
  Let(h, LAMBDA hh :
    [heap |-> Append(hh, zeros(hh[r].shape, hh[r].dtype, hh[r].unit, Len(hh[r].data))),
     ref  |-> Len(hh) + 1])

\* for attr in cls.attrs: vol[Act.indices(im, attr)] = getattr(cls, attr)
RECURSIVE PaintLoop(_, _, _, _)
PaintLoop(h, cls, attrs, r) ==
  IF attrs = <<>> THEN h
  ELSE Let(h, LAMBDA hh :
         PaintLoop([hh EXCEPT ![r] = SetItem(hh[r], indices("Act", hh[1], Head(attrs)),
                                             getattr(cls, Head(attrs)))],
                   cls, Tail(attrs), r))

\* a mutation: the bone write first, the tissue fill after it
muMapBuild_boneFirst(a) ==
  LET z  == zeros(a.shape, "float32", 10000, Len(a.data))
      m1 == SetItem(z, indices("Act", a, "bone"), mu_bone_1_cm)
  IN  SetItem(m1, [i \in Idx(a) |-> a.data[i] # 0], mu_tissue_1_cm)

\* muMap = zeros; muMap[im != 0] = mu_tissue_1_cm; muMap[bone] = mu_bone_1_cm
muMapBuild(a) ==
  LET z  == zeros(a.shape, "float32", 10000, Len(a.data))
      m1 == SetItem(z, [i \in Idx(a) |-> a.data[i] # 0], mu_tissue_1_cm)
  IN  SetItem(m1, indices("Act", a, "bone"), mu_bone_1_cm)

-----------------------------------------------------------------------------
(* toPetMmr: resize and pad *)

\* np.rint of the real number n / d (d > 0): nearest, halves to even
rint(n, d) ==
  LET q == n \div d
      r == n % d
  IN  IF 2 * r < d THEN q
      ELSE IF 2 * r > d THEN q + 1
      ELSE IF q % 2 = 0 THEN q ELSE q + 1

\* a mutation: quotient truncated toward zero (C division), remainder to match
divmod2_trunc(x) ==
  LET q == IF x.n >= 0 THEN x.n \div (2 * x.d) ELSE -((-x.n) \div (2 * x.d))
  IN  [q |-> q, r |-> [n |-> x.n - 2 * q * x.d, d |-> x.d]]

\* divmod(x, 2) of the real number x = x.n / x.d: floored quotient, and the
\* remainder x - 2*q in [0, 2)
divmod2(x) ==
  LET q == x.n \div (2 * x.d)
  IN  [q |-> q, r |-> [n |-> x.n - 2 * q * x.d, d |-> x.d]]

\* ndarray.astype(int) of a float: truncation toward zero
astype_int(x) == IF x.n >= 0 THEN x.n \div x.d ELSE -((-x.n) \div x.d)

\* a mutation: the odd unit on the left
padWidths_left(padLR, padR) == [i \in 1..3 |-> << padLR[i] + padR[i], padLR[i] >>]

\* [(p, p + r) for (p, r) in zip(padLR.astype(int), padR.astype(int))]
padWidths(padLR, padR) == [i \in 1..3 |-> << padLR[i], padLR[i] + padR[i] >>]

\* skimage resize(arr, new_shape, order=1, mode="constant"): a float array of
\* shape new_shape, a fixed function of arr and new_shape
resize(a, new_shape) ==
  [shape |-> new_shape, dtype |-> "float64", unit |-> a.unit,
   data |-> << "resize", a.dtype, a.data, a.shape >>]

\* np.pad(arr, widths, mode="constant"): negative widths are a ValueError
np_pad(a, widths) ==
  IF \E i \in 1..3 : widths[i][1] < 0 \/ widths[i][2] < 0
  THEN [status |-> "ValueError", arr |-> NoArr]
  ELSE [status |-> "ok",
        arr |-> [a EXCEPT !.shape = [i \in 1..3 |-> a.shape[i] + widths[i][1] + widths[i][2]]]]

\* the inner function resizeToMmr(arr) of toPetMmr
resizeToMmr(a, pad, new_shape, widths, dtype) ==
  Let(resize(a, new_shape), LAMBDA r :
  Let(IF pad THEN np_pad(r, widths) ELSE [status |-> "ok", arr |-> r], LAMBDA p :
    IF p.status # "ok" THEN p
    ELSE IF p.arr.dtype = "uint16"
    THEN [status |-> "ok", arr |-> [p.arr EXCEPT !.dtype = "float32", !.unit = 1]]
    ELSE [status |-> "ok", arr |-> [p.arr EXCEPT !.dtype = dtype]]))

\* the tail of toPetMmr, from "# resize": h is the heap the four volumes
\* were built in, refs their references in the order [res, muMap, t1, t2]
toPetMmrResize(imv, pad, outres, h, refs, bone) ==
  Let(geom.Res[outres], LAMBDA out_res :
  Let(geom.Shape[outres], LAMBDA out_shape :
  Let([i \in 1..3 |-> rint(h[1].shape[i] * geom.Res.brainweb[i], out_res[i])],
      LAMBDA new_shape :
  Let([i \in 1..3 |-> [n |-> out_shape[i].n - new_shape[i] * out_shape[i].d,
                       d |-> out_shape[i].d]],
      LAMBDA deficit :
  Let([i \in 1..3 |-> divmod2(deficit[i])], LAMBDA dm :
  Let([i \in 1..3 |-> dm[i].q], LAMBDA padLR :
  Let([i \in 1..3 |-> astype_int(dm[i].r)], LAMBDA padR :
  Let(padWidths(padLR, padR), LAMBDA widths :
  Let([k \in 1..4 |-> resizeToMmr(h[refs[k]], pad, new_shape, widths, "float32")],
      LAMBDA outs :
  Let(\E k \in 1..4 : outs[k].status # "ok", LAMBDA failed :
    [ im |-> h[1],
      call |-> [ status  |-> IF failed THEN "raised" ELSE "returned",
                 pad     |-> pad,
                 outres  |-> outres,
                 im0     |-> imv,
                 res     |-> h[refs[1]],
                 muMap   |-> h[refs[2]],
                 t1      |-> h[refs[3]],
                 t2      |-> h[refs[4]],
                 bone    |-> bone,
                 out_shape |-> out_shape,
                 new_shape |-> new_shape,
                 deficit |-> deficit,
                 padLR   |-> padLR,
                 padR    |-> padR,
                 widths  |-> widths,
                 out     |-> IF failed THEN <<>> ELSE [k \in 1..4 |-> outs[k].arr] ] ]
  ))))))))))

\* toPetMmr(im, pad, dtype=np.float32, outres): the caller's array after the
\* body has run, the locals, and what the call returns or raises
toPetMmrBody(imv, pad, outres) ==
  Let(zeros_like(<< imv >>, 1), LAMBDA a1 :
  Let(PaintLoop(a1.heap, "Pet", getattr("Pet", "attrs"), a1.ref), LAMBDA h1 :
  Let(Append(h1, muMapBuild(h1[1])), LAMBDA h2 :
  Let(zeros_like(h2, 1), LAMBDA a3 :
  Let(PaintLoop(a3.heap, "T1", getattr("T1", "attrs"), a3.ref), LAMBDA h3 :
  Let(zeros_like(h3, 1), LAMBDA a4 :
  Let(PaintLoop(a4.heap, "T2", getattr("T2", "attrs"), a4.ref), LAMBDA h4 :
    toPetMmrResize(imv, pad, outres, h4,
                   << a1.ref, Len(h1) + 1, a3.ref, a4.ref >>,
                   indices("Act", h1[1], "bone")))))))))

-----------------------------------------------------------------------------
(* noise *)

\* values a voxel of the smoothed random field may take, in tenths
RTenths == {0, 5, 10}

\* a mutation: the n == 0 case missing, zero noise computed like any other
noiseBody_noZero(imv, n, warn_zero, r, draws) ==
  IF n < 0
  THEN [status |-> "ValueError", out |-> NoArr, same |-> FALSE, warned |-> FALSE,
        rng |-> draws]
  ELSE [status |-> "returned",
        out |-> [shape |-> imv.shape, dtype |-> "float64", unit |-> 100 * imv.unit,
                 data |-> [i \in Idx(imv) |-> imv.data[i] * (100 + n * (2 * r[i] - 10))]],
        same |-> FALSE, warned |-> FALSE, rng |-> draws + 1]

\* noise(im, n, warn_zero, sigma=1), n in tenths; r is the smoothed field
\* gaussian(np.random.rand(*im.shape)) in tenths, draws the random state.
\* same: the value returned is the argument object itself.
noiseBody(imv, n, warn_zero, r, draws) ==
  IF n < 0
  THEN [status |-> "ValueError", out |-> NoArr, same |-> FALSE, warned |-> FALSE,
        rng |-> draws]
  ELSE IF n = 0
  THEN [status |-> "returned", out |-> imv, same |-> TRUE, warned |-> warn_zero,
        rng |-> draws]
  ELSE [status |-> "returned",
        out |-> [shape |-> imv.shape, dtype |-> "float64", unit |-> 100 * imv.unit,
                 data |-> [i \in Idx(imv) |-> imv.data[i] * (100 + n * (2 * r[i] - 10))]],
        same |-> FALSE, warned |-> FALSE, rng |-> draws + 1]

-----------------------------------------------------------------------------
(* Inputs *)

\* voxel codes tried: background, the two codes the Pet profile's values
\* collide with (greyMatter 32, whiteMatter 48), the three bone codes, and the
\* numeric value of Act.bone, which no label matches
SampleCodes ==
  { ActBase(a) : a \in {"background", "greyMatter", "whiteMatter",
                         "skull", "dura", "marrow"} }
  \cup { ActDict["bone"] }

\* input shapes tried, around the sizes where the resampled shape meets the
\* target shape of each system
SampleShapes ==
  { << z, y, x >> : z \in {10, 11, 515, 516, 518}, y \in {10, 1435, 1438},
                    x \in {11, 1436} }

\* a volume as getRaw returns it: uint16
Volume(sh, d) == [shape |-> sh, dtype |-> "uint16", unit |-> 1, data |-> d]

\* the volumes a caller starts with: every shape tried (with one content),
\* and every content tried (with one shape)
InputVolumes ==
  { Volume(sh, [i \in 1..NSamp |-> ActBase("whiteMatter")]) : sh \in SampleShapes }
  \cup { Volume(<< 10, 10, 11 >>, d) : d \in [1..NSamp -> SampleCodes] }

IdleCall ==
  [ status |-> "idle", pad |-> FALSE, outres |-> "none", im0 |-> NoArr,
    res |-> NoArr, muMap |-> NoArr, t1 |-> NoArr, t2 |-> NoArr, bone |-> <<>>,
    out_shape |-> <<>>, new_shape |-> <<>>, deficit |-> <<>>, padLR |-> <<>>,
    padR |-> <<>>, widths |-> <<>>, out |-> <<>> ]

NoPrev == [ status |-> "idle", pad |-> FALSE, outres |-> "none", out |-> <<>> ]

IdleNoise ==
  [ status |-> "idle", n |-> 0, warn_zero |-> FALSE, im0 |-> NoArr, out |-> NoArr,
    same |-> FALSE, warned |-> FALSE, rng0 |-> 0 ]

IdleProbe == [ done |-> FALSE, arr |-> NoArr, sel |-> {}, bone |-> FALSE ]

-----------------------------------------------------------------------------
(* The synthesizer: a caller holding one labeled volume calls toPetMmr any *)
(* number of times                                                         *)

Init ==
  /\ classes = ClassesInit
  /\ geom = GeomInit
  /\ im \in InputVolumes
  /\ call = IdleCall
  /\ prev = NoPrev
  /\ rng = 0
  /\ nz = IdleNoise
  /\ probe = IdleProbe

toPetMmr ==
  \E pad \in BOOLEAN, outres \in Systems :
    \E b \in { toPetMmrBody(im, pad, outres) } :
        /\ im' = b.im
        /\ call' = b.call
        /\ prev' = [ status |-> call.status, pad |-> call.pad,
                     outres |-> call.outres, out |-> call.out ]
        /\ UNCHANGED << classes, geom, rng, nz, probe >>

Next == toPetMmr

Spec == Init /\ [][Next]_vars

-----------------------------------------------------------------------------
(* The noise injector *)

\* volumes handed to noise
NoiseVolumes ==
  { Volume(<< 10, 10, 11 >>, d) :
      d \in [1..NSamp -> {ActBase("background"), ActBase("whiteMatter"), ActBase("marrow")}] }

InitNoise ==
  /\ classes = ClassesInit
  /\ geom = GeomInit
  /\ im \in NoiseVolumes
  /\ call = IdleCall
  /\ prev = NoPrev
  /\ rng = 0
  /\ nz = IdleNoise
  /\ probe = IdleProbe

\* the field is drawn only when the noisy branch is reached
noise ==
  \E n \in (-MaxNoise)..MaxNoise, warn_zero \in BOOLEAN :
  \E r \in (IF n > 0 THEN [1..NSamp -> RTenths] ELSE {[i \in 1..NSamp |-> 0]}) :
    /\ n > 0 => rng < MaxDraws
    /\ \E b \in { noiseBody(im, n, warn_zero, r, rng) } :
           /\ nz' = [ status |-> b.status, n |-> n, warn_zero |-> warn_zero,
                      im0 |-> im, out |-> b.out, same |-> b.same,
                      warned |-> b.warned, rng0 |-> rng ]
           /\ rng' = b.rng
    /\ UNCHANGED << classes, geom, im, call, prev, probe >>

NextNoise == noise

SpecNoise == InitNoise /\ [][NextNoise]_vars

-----------------------------------------------------------------------------
(* The mask test on one voxel, over the whole 16-bit range *)

\* element types tried: numpy.uint16 (wrapping) and a signed integer type
ProbeDTypes == {"uint16", "int64"}

InitMask ==
  /\ classes = ClassesInit
  /\ geom = GeomInit
  /\ im = NoArr
  /\ call = IdleCall
  /\ prev = NoPrev
  /\ rng = 0
  /\ nz = IdleNoise
  /\ probe \in { [ done |-> FALSE,
                   arr |-> [shape |-> <<1, 1, 1>>, dtype |-> t, unit |-> 1, data |-> << v >>],
                   sel |-> {}, bone |-> FALSE ] :
                 v \in 0..(UInt16Mod - 1), t \in ProbeDTypes }

\* Act.indices(arr, L) for every base label L, and for "bone"
ProbeIndices ==
  /\ ~probe.done
  /\ probe' = [ probe EXCEPT
                  !.done = TRUE,
                  !.sel = { L \in BaseLabels : indices("Act", probe.arr, L)[1] },
                  !.bone = indices("Act", probe.arr, "bone")[1] ]
  /\ UNCHANGED << classes, geom, im, call, prev, rng, nz >>

NextMask == ProbeIndices

SpecMask == InitMask /\ [][NextMask]_vars

-----------------------------------------------------------------------------
(* Properties *)

Called == call.status # "idle"

BoneCodes == { ActBase("skull"), ActBase("marrow"), ActBase("dura") }

Profiles == {"Pet", "T1", "T2"}

\* the volume toPetMmr built for a profile, before the resize
ProfileVol(p) == CASE p = "Pet" -> call.res [] p = "T1" -> call.t1 [] p = "T2" -> call.t2

AttrSet(p) == { getattr(p, "attrs")[k] : k \in 1..Len(getattr(p, "attrs")) }

\* the mask of a label, taken from the codes the call was given
InputMask(a) == indices("Act", call.im0, a)

\* the resampled shape exceeds the target shape on axis i
Exceeds(i) == call.new_shape[i] * call.out_shape[i].d > call.out_shape[i].n

\* the target shape on axis i, rounded to the nearest whole voxel count
TargetRounded(i) == rint(call.out_shape[i].n, call.out_shape[i].d)

\* C1: with pad=True and a resampled shape that fits the target on every axis,
\* toPetMmr returns four volumes, in the order [PET, muMap, T1, T2], each of
\* the target system's shape rounded to the nearest integer.
C1_PaddedShapeIsTargetShape ==
  (Called /\ call.pad /\ \A i \in 1..3 : ~Exceeds(i)) =>
    /\ call.status = "returned"
    /\ Len(call.out) = 4
    /\ \A k \in 1..4 :
         /\ call.out[k].data[3] = << call.res, call.muMap, call.t1, call.t2 >>[k].data
         /\ \A i \in 1..3 : call.out[k].shape[i] = TargetRounded(i)

\* C2: in the mu-map before the resize a voxel holds mu_bone_1_cm where the
\* code is skull, marrow or dura, mu_tissue_1_cm where it is any other nonzero
\* code and 0 where it is 0; the bone mask lies inside the nonzero voxels.
C2_MuMapValues ==
  Called =>
    /\ call.muMap.unit = 10000
    /\ \A i \in Idx(call.im0) :
         /\ call.muMap.data[i] =
              IF call.im0.data[i] \in BoneCodes THEN mu_bone_1_cm
              ELSE IF call.im0.data[i] # 0 THEN mu_tissue_1_cm
              ELSE 0
         /\ call.bone[i] => call.im0.data[i] # 0

C2_Witness ==
  /\ Called
  /\ \E i, j \in Idx(call.im0) :
       /\ call.im0.data[i] \in BoneCodes
       /\ call.im0.data[j] # 0 /\ call.im0.data[j] \notin BoneCodes
       /\ call.muMap.data[i] = mu_bone_1_cm
       /\ call.muMap.data[j] = mu_tissue_1_cm

\* C3: Act.indices(im, "bone") is the union of the skull, marrow and dura
\* masks: a voxel is selected iff its code is one of those three codes, and a
\* voxel holding the numeric value of Act.bone is not selected.
C3_BoneIsUnion ==
  probe.done =>
    /\ probe.bone <=> (probe.sel \cap {"skull", "marrow", "dura"} # {})
    /\ probe.bone <=> (probe.arr.data[1] \in BoneCodes)
    /\ probe.arr.data[1] = ActDict["bone"] => ~probe.bone

C3_Witness ==
  /\ probe.done
  /\ probe.arr.data[1] = ActBase("dura")
  /\ probe.bone
  /\ probe.sel = {"dura"}

\* C4: for every base label L and every 16-bit voxel value v the test
\* |v - value(L)| < 1 selects v iff v = value(L), in wrapping uint16
\* arithmetic as in signed arithmetic, and at most one base label selects v.
C4_MaskIsExactMatch ==
  probe.done =>
    /\ \A L \in BaseLabels : (L \in probe.sel) <=> (probe.arr.data[1] = ActBase(L))
    /\ Cardinality(probe.sel) <= 1

\* the subtraction wraps for every label above csf, and csf is selected
C4_Witness ==
  /\ probe.done
  /\ probe.arr.dtype = "uint16"
  /\ probe.arr.data[1] = ActBase("csf")
  /\ probe.sel = {"csf"}

\* C5: in each of the PET, T1 and T2 volumes before the resize, a voxel whose
\* input code matches a label of the profile's attrs holds the profile's value
\* for that label, and a voxel matching no listed label holds 0.
C5_PaintedValues ==
  Called =>
    \A p \in Profiles : \A i \in Idx(call.im0) :
      /\ \A a \in AttrSet(p) : InputMask(a)[i] => ProfileVol(p).data[i] = getattr(p, a)
      /\ (\A a \in AttrSet(p) : ~InputMask(a)[i]) => ProfileVol(p).data[i] = 0

\* one paint step of a profile on a volume
PaintStep(p, vol, a) == SetItem(vol, InputMask(a), getattr(p, a))

ZeroVol == zeros(call.im0.shape, call.im0.dtype, call.im0.unit, Len(call.im0.data))

RECURSIVE Reverse(_)
Reverse(q) == IF q = <<>> THEN <<>> ELSE Append(Reverse(Tail(q)), Head(q))

\* C6: for every profile the masks of the labels of its attrs are pairwise
\* disjoint, so paint steps commute and the painted volume does not depend on
\* the order of the attrs.
C6_PaintOrderIrrelevant ==
  Called =>
    \A p \in Profiles :
      /\ \A a, b \in AttrSet(p) :
           a # b =>
             /\ \A i \in Idx(call.im0) : ~(InputMask(a)[i] /\ InputMask(b)[i])
             /\ PaintStep(p, PaintStep(p, ZeroVol, a), b)
                  = PaintStep(p, PaintStep(p, ZeroVol, b), a)
      /\ PaintLoop(<< call.im0, ZeroVol >>, p, Reverse(getattr(p, "attrs")), 2)[2]
           = ProfileVol(p)

\* C7: a toPetMmr call, returning or raising, leaves the input volume and the
\* registries as they were, and a call with the arguments of the call before
\* it has the same outcome.
C7_NoHiddenState ==
  Called =>
    /\ im = call.im0
    /\ classes = ClassesInit
    /\ geom = GeomInit
    /\ (prev.status # "idle" /\ prev.pad = call.pad /\ prev.outres = call.outres) =>
         (prev.status = call.status /\ prev.out = call.out)

C7_Witness ==
  /\ call.status = "returned"
  /\ prev.status = "returned"
  /\ prev.pad = call.pad
  /\ prev.outres = call.outres
  /\ prev.out = call.out
  /\ \E i \in Idx(call.im0) : call.res.data[i] # call.im0.data[i]

\* C8: noise(vol, n) with n < 0 raises and returns nothing, with n == 0 it
\* returns a volume equal to its input whatever warn_zero is; in both cases
\* the input is unchanged and no random field is drawn.
C8_NoNoiseForNonPositive ==
  (nz.status # "idle" /\ nz.n <= 0) =>
    /\ nz.n < 0 => (nz.status = "ValueError" /\ nz.out = NoArr)
    /\ nz.n = 0 => (nz.status = "returned" /\ NumEq(nz.out, nz.im0))
    /\ im = nz.im0
    /\ rng = nz.rng0

\* zero noise without the warning, after a noisy call has drawn a field
C8_Witness ==
  /\ nz.status = "returned"
  /\ nz.n = 0
  /\ ~nz.warn_zero
  /\ rng > 0
  /\ nz.out = im

\* the deficit of axis i is a whole number >= 0
WholeDeficit(i) == call.deficit[i].n >= 0 /\ call.deficit[i].n % call.deficit[i].d = 0

\* C9: with pad=True, on every axis whose deficit d is a whole number >= 0 the
\* left pad is floor(d/2) and the right pad floor(d/2) + d mod 2: they sum to
\* d, differ by at most 1, and the odd unit is on the right.
C9_PadSplit ==
  (Called /\ call.pad) =>
    \A i \in 1..3 :
      WholeDeficit(i) =>
        LET d == call.deficit[i].n \div call.deficit[i].d
            left == call.widths[i][1]
            right == call.widths[i][2]
        IN  /\ left = (d \div 2)
            /\ right = (d \div 2) + (d % 2)
            /\ left + right = d
            /\ right - left \in {0, 1}

\* an odd deficit, padded: the right pad is the larger one
C9_Witness ==
  /\ call.status = "returned"
  /\ call.pad
  /\ \E i \in 1..3 :
       /\ WholeDeficit(i)
       /\ (call.deficit[i].n \div call.deficit[i].d) % 2 = 1
       /\ call.widths[i][2] = call.widths[i][1] + 1
       /\ \A k \in 1..4 : call.out[k].shape[i] = call.new_shape[i] + call.deficit[i].n

\* C10: with pad=True and a resampled shape exceeding the target shape on some
\* axis, the left pad of that axis is negative and toPetMmr raises, returning
\* none of the four volumes.
C10_OversizeRaises ==
  (Called /\ call.pad /\ \E i \in 1..3 : Exceeds(i)) =>
    /\ \A i \in 1..3 : Exceeds(i) => call.padLR[i] < 0
    /\ call.status = "raised"
    /\ call.out = <<>>

\* the resampled shape exceeds the target by less than one voxel
C10_Witness ==
  /\ call.status = "raised"
  /\ call.pad
  /\ call.out = <<>>
  /\ \E i \in 1..3 :
       /\ Exceeds(i)
       /\ call.new_shape[i] * call.out_shape[i].d < call.out_shape[i].n + call.out_shape[i].d
       /\ call.padLR[i] = -1

=============================================================================
